---- MODULE Spec2Model ----
(***************************************************************************)
(* A model of stonk.py: the ledger (users, stock_holdings, stocks) behind  *)
(* one sqlite connection, the command handlers of StonkCog that read and   *)
(* write it, the buy lock, and the hourly valuation cycle of StonkBot.     *)
(*                                                                         *)
(* Execution model.  The bot runs on one asyncio event loop, so a handler  *)
(* runs without interruption from one `await` to the next.  Every action   *)
(* below is one such uninterrupted segment of a handler.                   *)
(*                                                                         *)
(* Numbers.  Money (balances, prices, amounts) is a Python float in the    *)
(* source.  The model counts money in cents (Cents units per dollar), so   *)
(* sums and products of the modelled values are exact; a float that is not *)
(* a number (nan) and the SQL NULL it is stored as are modelled too.  A    *)
(* float is <<v>> (v cents) or <<>> (nan); a REAL column is <<v>> or <<>>  *)
(* (NULL): sqlite3 binds a nan as NULL and reads a NULL back as None.      *)
(*                                                                         *)
(* Specifications.  Spec: the commands and the cycle on the tables of a    *)
(* bot that has started.  Boot: a new process, from on_ready through       *)
(* initialize_stocks to its update loop, with restarts and a channel       *)
(* created meanwhile.  AvailSpec and LadderSpec: the availability step and *)
(* the increase step applied on their own.                                 *)
(***************************************************************************)
EXTENDS Integers, Sequences, FiniteSets, TLC

VARIABLES
    db,        \* the connection's view of the tables: users, stock_holdings, stocks
    disk,      \* the tables as of the last conn.commit()
    pc,        \* per buy invocation: "idle", "wait" (queued on buy_lock), "reply" (in ctx.send, lock held)
    args,      \* per buy invocation: the arguments it was issued with
    locked,    \* asyncio.Lock._locked of StonkCog.buy_lock
    waiters,   \* asyncio.Lock._waiters of StonkCog.buy_lock, in FIFO order
    reply,     \* the last handler that ran its ledger section: command, arguments, outcome
    steps,     \* commands issued and cycles run so far
    guild,     \* the Discord server: its text channels in list order, its emojis
    bot,       \* the memory of StonkBot: emoji_set, the registry, the cogs, the update loop
    job,       \* the activity counts in progress: one of on_ready, one of the update loop
    seen       \* what was observed so far: the guild at on_ready, each initialization, each history read

vars == <<db, disk, pc, args, locked, waiters, reply, steps, guild, bot, job, seen>>

\* What the commands of StonkCog leave alone.
startup_vars == <<guild, bot, job, seen>>

-----------------------------------------------------------------------------
(* Bounds of the model *)

MaxSteps == 2
NumTasks == 2
NumSuffixes == 3
MaxCycles == 1
MaxRestarts == 1
MaxUnits == 3
MaxTickers == 3
MaxActivity == 420

(* Units *)
Cents == 10 * 10

(* Program constants *)
INITIAL_AVAIL == 10000
TARGET_AVAIL == 25000
SEED_ROUNDS == 120
MIN_ACTIVITY == 5
MAX_GAMERTAG_LEN == 11

INITIAL_BALANCE == 100000 * Cents
SEED_PRICE == 420

-----------------------------------------------------------------------------
(* Floats and nullable REAL columns *)

NaN == <<>>
NULL == <<>>
Num(v) == <<v>>
IsNum(x) == Len(x) = 1
Val(x) == x[1]

\* Python float arithmetic and comparison; any comparison with nan is False.
FSub(x, y) == IF IsNum(x) /\ IsNum(y) THEN Num(Val(x) - Val(y)) ELSE NaN
FAdd(x, y) == IF IsNum(x) /\ IsNum(y) THEN Num(Val(x) + Val(y)) ELSE NaN
FLess(x, y) == IsNum(x) /\ IsNum(y) /\ Val(x) < Val(y)
FLeq(x, y) == IsNum(x) /\ IsNum(y) /\ Val(x) <= Val(y)

-----------------------------------------------------------------------------
(* Tables as functions from the primary key of each stored row *)

Put(f, k, v) == [x \in DOMAIN f \cup {k} |-> IF x = k THEN v ELSE f[x]]
Del(f, k) == [x \in DOMAIN f \ {k} |-> f[x]]

SetMin(S) == CHOOSE x \in S : \A y \in S : x <= y

-----------------------------------------------------------------------------
(* Valuation engine: prices in cents *)

\* Python round(num / den) for num >= 0, den > 0: to nearest, ties to even.
PyRound(num, den) ==
    LET q == num \div den
        r == num % den
    IN  IF 2 * r < den THEN q
        ELSE IF 2 * r > den THEN q + 1
        ELSE IF q % 2 = 0 THEN q ELSE q + 1

\* The draws of random.uniform(-0.025, -0.015), in thousandths lost: 15..25.
DecayDraws == {15, 20, 25}

\* Mutant: the decay takes d cents off, whatever the price.
get_stock_decay_value_flat(old_value, d) == old_value - d

\* get_stock_decay_value with the draw d: old_value * (1 - d/1000), cut to a cent.
get_stock_decay_value(old_value, d) == (old_value * (1000 - d)) \div 1000

\* One pass of the loop body of get_increase_stock_value.
LadderStep(current_price) ==
    IF current_price < 100 * Cents THEN current_price + 100
    ELSE IF current_price < 200 * Cents THEN current_price + 80
    ELSE IF current_price < 300 * Cents THEN current_price + 50
    ELSE IF current_price < 400 * Cents THEN current_price + 20
    ELSE IF current_price < 500 * Cents THEN current_price + 10
    ELSE current_price + 5

\* Mutant: the amount is chosen once, by the price the burst starts at.
get_increase_stock_value_one_rate(current_price, total_messages) ==
    IF total_messages <= 0 THEN current_price
    ELSE current_price + total_messages * (LadderStep(current_price) - current_price)

\* for _ in range(total_messages): one LadderStep each.  The passes are
\* evaluated as the first half followed by the rest, which is the same
\* sequence of passes; the guard has the first half computed before the rest.
RECURSIVE get_increase_stock_value(_, _)
get_increase_stock_value(current_price, total_messages) ==
    IF total_messages <= 0 THEN current_price
    ELSE IF total_messages = 1 THEN LadderStep(current_price)
    ELSE LET first == total_messages \div 2
             mid == get_increase_stock_value(current_price, first)
         IN  CASE mid \in Int ->
                  get_increase_stock_value(mid, total_messages - first)

\* The loop of get_initial_stock_value: `rounds` times decay, then increase.
\* Every round draws the same d (one sample of the 120 independent draws).
RECURSIVE SeedRounds(_, _, _, _)
SeedRounds(price, average_per_hour, rounds, d) ==
    IF rounds = 0 THEN price
    ELSE IF rounds = 1
         THEN get_increase_stock_value(get_stock_decay_value(price, d), average_per_hour)
    ELSE LET first == rounds \div 2
             mid == SeedRounds(price, average_per_hour, first, d)
         IN  CASE mid \in Int ->
                  SeedRounds(mid, average_per_hour, rounds - first, d)

\* Mutant: an activity of exactly 120 is seeded by the rounds as well.
get_initial_stock_value_from_120(activity_count, d) ==
    IF activity_count < MIN_ACTIVITY THEN 0
    ELSE IF activity_count >= SEED_ROUNDS
         THEN SeedRounds(SEED_PRICE, PyRound(activity_count, SEED_ROUNDS), SEED_ROUNDS, d)
         ELSE SEED_PRICE

get_initial_stock_value(activity_count, d) ==
    IF activity_count < MIN_ACTIVITY THEN 0
    ELSE IF activity_count > SEED_ROUNDS
         THEN SeedRounds(SEED_PRICE, PyRound(activity_count, SEED_ROUNDS), SEED_ROUNDS, d)
         ELSE SEED_PRICE

-----------------------------------------------------------------------------
(* Arguments the commands are issued with *)

UserIds == 1 .. 2
Tasks == 1 .. NumTasks
Tickers == {"CGENER", "EKEKWA"}

\* Gamertags are strings of characters; <<>> is the missing argument (None).
LOWER_ALNUM == {"a", "b", "1", "2"}
GamertagArgs == {<<"a", "1">>, <<"b", "2">>}
NoGamertag == <<>>

\* Gamertags as typed after $register and $rename: also none, one with a
\* capital, and one of MAX_GAMERTAG_LEN + 1 characters.
TooLong == [i \in 1 .. MAX_GAMERTAG_LEN + 1 |-> "a"]
NewGamertagArgs == GamertagArgs \cup {NoGamertag, <<"A", "1">>, TooLong}

\* Stock names as typed, and str.upper() on them.
TradeStockArgs == {"cgener", "EKEKWA", "NOPE"}
GiftStockArgs == {"CGENER", "cgener"}
upper(stock_name) == IF stock_name = "cgener" THEN "CGENER" ELSE stock_name

QuantityArgs == {0 - INITIAL_AVAIL, 0, 1, 2, INITIAL_AVAIL}
AmountArgs == {NaN, Num(0), Num(0 - Cents), Num(Cents), Num(2 * INITIAL_BALANCE)}

\* Activity over the last 5 days that the stocks are seeded from at startup,
\* and the decay draw of the seeding.
SeedActivity == ("CGENER" :> 130) @@ ("EKEKWA" :> 3)
SeedDraws == {20}

-----------------------------------------------------------------------------
(* Helper functions of StonkBot *)

\* Mutant: the length of the gamertag is not checked.
check_gamertag_any_length(gamertag) ==
    /\ gamertag # <<>>
    /\ \A i \in 1 .. Len(gamertag) : gamertag[i] \in LOWER_ALNUM

check_gamertag(gamertag) ==
    /\ gamertag # <<>>
    /\ \A i \in 1 .. Len(gamertag) : gamertag[i] \in LOWER_ALNUM
    /\ Len(gamertag) <= MAX_GAMERTAG_LEN

\* SELECT user_id FROM users WHERE gamertag = ?  (fetchone: the first row, in
\* user_id order, or none: the empty set)
UsersWithGamertag(L, gamertag) ==
    {u \in DOMAIN L.users : L.users[u].gamertag = gamertag}

\* What a handler's ledger section leaves: the tables, whether it ran
\* conn.commit(), and what it told the caller.  "error" is an exception
\* raised out of the handler (no reply is sent).
Result(L, commit, outcome) == [db |-> L, commit |-> commit, outcome |-> outcome]
Rejected(L, outcome) == Result(L, FALSE, outcome)
Raised(L) == Result(L, FALSE, "error")

-----------------------------------------------------------------------------
(* The hourly update of StonkBot.update_stocks_task.  `draws` gives, for each
   stock, the activity counted for it over the last hour and the three random
   draws made for it: r (hundredths), jitter (whole shares), decay
   (thousandths). *)

\* One activity count and one set of draws for a stock.
CycleDraws ==
    {[count |-> 0, r |-> 0, jitter |-> 0, decay |-> 15],
     [count |-> 3, r |-> 5, jitter |-> 25, decay |-> 25]}

\* increase_stock_price for every counted name (each stock here: the registry
\* maps every counted channel and emoji to its ticker).
increase_all_stock_prices(L, draws) ==
    [L EXCEPT !.stocks = [t \in DOMAIN @ |->
        [@[t] EXCEPT !.stock_value = get_increase_stock_value(@, draws[t].count)]]]

\* round(stock_avail + gap * r + uniform(0, 25)) with gap = 25000 - stock_avail
new_avail_value(stock_avail, r, jitter) ==
    LET gap == TARGET_AVAIL - stock_avail
    IN  PyRound(stock_avail * 100 + gap * r + jitter * 100, 100)

avail_based_price_adjustment_all_stocks(L, draws) ==
    [L EXCEPT !.stocks = [t \in DOMAIN @ |->
        [@[t] EXCEPT !.stock_avail = new_avail_value(@, draws[t].r, draws[t].jitter)]]]

decay_all_stock_prices(L, draws) ==
    [L EXCEPT !.stocks = [t \in DOMAIN @ |->
        [@[t] EXCEPT !.stock_value = get_stock_decay_value(@, draws[t].decay)]]]

\* store_update_time: the time is counted in completed updates.
store_update_time(L) == [L EXCEPT !.update_time = @ + 1]

\* Mutant: the prices are decayed before they are increased.
update_stocks_task_decay_first(L, draws) ==
    store_update_time(
        increase_all_stock_prices(
            avail_based_price_adjustment_all_stocks(
                decay_all_stock_prices(L, draws), draws), draws))

\* The update once the hour's activity has been counted: four steps, each
\* ending in conn.commit(), with no await between them.
update_stocks_task(L, draws) ==
    store_update_time(
        decay_all_stock_prices(
            avail_based_price_adjustment_all_stocks(
                increase_all_stock_prices(L, draws), draws), draws))

-----------------------------------------------------------------------------
(* Commands of StonkCog *)

register(L, user_id, gamertag) ==
    IF user_id \in DOMAIN L.users THEN Rejected(L, "already registered")
    ELSE IF gamertag = NoGamertag THEN Rejected(L, "no gamertag")
    ELSE IF ~check_gamertag(gamertag) THEN Rejected(L, "invalid gamertag")
    ELSE Result([L EXCEPT !.users = Put(@, user_id,
                    [gamertag |-> gamertag, balance |-> Num(INITIAL_BALANCE)])],
                TRUE, "ok")

\* $rename: the cooldown of one rename per user and day is not modelled, so
\* every rename the cooldown lets through is among those explored.
rename_gamertag(L, user_id, gamertag) ==
    IF gamertag = NoGamertag THEN Rejected(L, "no gamertag")
    ELSE IF ~check_gamertag(gamertag) THEN Rejected(L, "invalid gamertag")
    ELSE IF UsersWithGamertag(L, gamertag) # {} THEN Rejected(L, "taken")
    ELSE Result([L EXCEPT !.users =
                    [u \in DOMAIN @ |->
                        IF u = user_id THEN [@[u] EXCEPT !.gamertag = gamertag]
                        ELSE @[u]]],
                TRUE, "ok")

\* Mutant: the holding is replaced by the quantity bought, not added to.
buy_writes_replacing(L, user_id, stock_name, quantity) ==
    LET stock_price == L.stocks[stock_name].stock_value
        total_cost == stock_price * quantity
        new_balance == Num(Val(L.users[user_id].balance) - total_cost)
    IN  Result([L EXCEPT !.users[user_id].balance = new_balance,
                         !.stock_holdings = Put(@, <<user_id, stock_name>>, quantity),
                         !.stocks[stock_name].stock_avail = @ - quantity],
               TRUE, "ok")

\* buy_stock once every check has passed: the three writes and the commit.
buy_writes(L, user_id, stock_name, quantity) ==
    LET stock_price == L.stocks[stock_name].stock_value
        stock_avail == L.stocks[stock_name].stock_avail
        total_cost == stock_price * quantity
        key == <<user_id, stock_name>>
        new_balance == Num(Val(L.users[user_id].balance) - total_cost)
        new_quantity == IF key \in DOMAIN L.stock_holdings
                        THEN L.stock_holdings[key] + quantity
                        ELSE quantity
        new_avail == stock_avail - quantity
    IN  Result([L EXCEPT !.users[user_id].balance = new_balance,
                         !.stock_holdings = Put(@, key, new_quantity),
                         !.stocks[stock_name].stock_avail = new_avail],
               TRUE, "ok")

\* Mutant: like sell_stock, buy_stock does not check the sign of the quantity.
buy_stock_any_quantity(L, user_id, quantity, stock_arg) ==
    LET stock_name == upper(stock_arg) IN
    IF user_id \notin DOMAIN L.users THEN Rejected(L, "not registered")
    ELSE IF stock_name \notin DOMAIN L.stocks THEN Rejected(L, "invalid stock")
    ELSE
    LET stock_price == L.stocks[stock_name].stock_value
        balance == L.users[user_id].balance
    IN  IF quantity > L.stocks[stock_name].stock_avail THEN Rejected(L, "not available")
        ELSE IF stock_price <= 0 THEN Rejected(L, "no")
        ELSE IF ~IsNum(balance) THEN Raised(L)
        ELSE IF Val(balance) < stock_price * quantity
             THEN Rejected(L, "insufficient funds")
        ELSE buy_writes(L, user_id, stock_name, quantity)

\* The body of buy_stock under buy_lock, up to the reply.
buy_stock(L, user_id, quantity, stock_arg) ==
    LET stock_name == upper(stock_arg) IN
    IF user_id \notin DOMAIN L.users THEN Rejected(L, "not registered")
    ELSE IF stock_name \notin DOMAIN L.stocks THEN Rejected(L, "invalid stock")
    ELSE
    LET stock_price == L.stocks[stock_name].stock_value
        stock_avail == L.stocks[stock_name].stock_avail
        total_cost == stock_price * quantity
        balance == L.users[user_id].balance
    IN  IF quantity <= 0 THEN Rejected(L, "not positive")
        ELSE IF quantity > stock_avail THEN Rejected(L, "not available")
        ELSE IF stock_price <= 0 THEN Rejected(L, "no")
        ELSE IF ~IsNum(balance) THEN Raised(L)                       \* None < float
        ELSE IF Val(balance) < total_cost THEN Rejected(L, "insufficient funds")
        ELSE buy_writes(L, user_id, stock_name, quantity)

\* Mutant: the holding row stays when a sale empties it.
sell_writes_keeping_row(L, user_id, stock_name, quantity) ==
    LET total_sale == L.stocks[stock_name].stock_value * quantity
        key == <<user_id, stock_name>>
        L1 == [L EXCEPT !.stock_holdings[key] = @ - quantity]
        balance == L1.users[user_id].balance
    IN  IF ~IsNum(balance) THEN Raised(L1)
        ELSE Result([L1 EXCEPT !.users[user_id].balance =
                                    Num(Val(balance) + total_sale),
                               !.stocks[stock_name].stock_avail = @ + quantity],
                    TRUE, "ok")

\* sell_stock once its checks have passed: the holding, the balance, the
\* availability, the commit.
sell_writes(L, user_id, stock_name, quantity) ==
    LET total_sale == L.stocks[stock_name].stock_value * quantity
        key == <<user_id, stock_name>>
        new_quantity == L.stock_holdings[key] - quantity
        L1 == [L EXCEPT !.stock_holdings =
                    IF new_quantity = 0 THEN Del(@, key)
                    ELSE Put(@, key, new_quantity)]
        balance == L1.users[user_id].balance
    IN  IF ~IsNum(balance) THEN Raised(L1)                           \* None + float
        ELSE Result([L1 EXCEPT !.users[user_id].balance =
                                    Num(Val(balance) + total_sale),
                               !.stocks[stock_name].stock_avail = @ + quantity],
                    TRUE, "ok")

\* Mutant: any holding row is enough to sell any quantity.
sell_stock_any_row(L, user_id, quantity, stock_arg) ==
    LET stock_name == upper(stock_arg)
        key == <<user_id, stock_name>>
    IN  IF user_id \notin DOMAIN L.users THEN Rejected(L, "not registered")
        ELSE IF stock_name \notin DOMAIN L.stocks THEN Rejected(L, "invalid stock")
        ELSE IF key \notin DOMAIN L.stock_holdings THEN Rejected(L, "not enough shares")
        ELSE sell_writes(L, user_id, stock_name, quantity)

sell_stock(L, user_id, quantity, stock_arg) ==
    LET stock_name == upper(stock_arg)
        key == <<user_id, stock_name>>
    IN  IF user_id \notin DOMAIN L.users THEN Rejected(L, "not registered")
        ELSE IF stock_name \notin DOMAIN L.stocks THEN Rejected(L, "invalid stock")
        ELSE IF key \notin DOMAIN L.stock_holdings \/ L.stock_holdings[key] < quantity
             THEN Rejected(L, "not enough shares")
        ELSE sell_writes(L, user_id, stock_name, quantity)

\* givemoney once its checks have passed: debit, credit, commit.
givemoney_writes(L, giver_id, target_id, amount) ==
    LET giver_balance == L.users[giver_id].balance
        L1 == [L EXCEPT !.users[giver_id].balance = FSub(giver_balance, amount)]
        target_balance == L1.users[target_id].balance
    IN  IF ~IsNum(target_balance) THEN Raised(L1)                     \* None + float
        ELSE Result([L1 EXCEPT !.users[target_id].balance = FAdd(target_balance, amount)],
                    TRUE, "ok")

givemoney(L, giver_id, amount, to_gamertag) ==
    IF amount = Num(0) \/ to_gamertag = NoGamertag THEN Rejected(L, "usage")
    ELSE IF FLeq(amount, Num(0)) THEN Rejected(L, "not positive")
    ELSE IF UsersWithGamertag(L, to_gamertag) = {} THEN Rejected(L, "not found")
    ELSE
    LET target_id == SetMin(UsersWithGamertag(L, to_gamertag)) IN
    IF giver_id \notin DOMAIN L.users THEN Raised(L)                 \* None[0]
    ELSE
    LET giver_balance == L.users[giver_id].balance IN
    IF ~IsNum(giver_balance) THEN Raised(L)                          \* None < float
    ELSE IF FLess(giver_balance, amount) THEN Rejected(L, "insufficient funds")
    ELSE givemoney_writes(L, giver_id, target_id, amount)

\* Mutant: the recipient's row is read before the giver's row is written.
givestocks_writes_stale_read(L, giver_id, target_id, amount, stock_name) ==
    LET giver_key == <<giver_id, stock_name>>
        target_key == <<target_id, stock_name>>
        L1 == [L EXCEPT !.stock_holdings[giver_key] = @ - amount]
    IN  Result([L1 EXCEPT !.stock_holdings =
                    IF target_key \notin DOMAIN L.stock_holdings
                    THEN Put(@, target_key, amount)
                    ELSE Put(@, target_key, L.stock_holdings[target_key] + amount)],
               TRUE, "ok")

\* givestocks once its checks have passed: the giver's row, the
\* recipient's row, the commit.
givestocks_writes(L, giver_id, target_id, amount, stock_name) ==
    LET giver_key == <<giver_id, stock_name>>
        target_key == <<target_id, stock_name>>
        L1 == [L EXCEPT !.stock_holdings[giver_key] = @ - amount]
        L2 == [L1 EXCEPT !.stock_holdings =
                    IF target_key \notin DOMAIN @ THEN Put(@, target_key, amount)
                    ELSE Put(@, target_key, @[target_key] + amount)]
    IN  Result(L2, TRUE, "ok")

givestocks(L, giver_id, amount, stock_name, to_gamertag) ==
    IF amount = 0 \/ to_gamertag = NoGamertag THEN Rejected(L, "usage")
    ELSE IF amount <= 0 THEN Rejected(L, "not positive")
    ELSE IF UsersWithGamertag(L, to_gamertag) = {} THEN Rejected(L, "not found")
    ELSE
    LET target_id == SetMin(UsersWithGamertag(L, to_gamertag))
        giver_key == <<giver_id, stock_name>>
    IN  IF giver_key \notin DOMAIN L.stock_holdings THEN Rejected(L, "not owned")
        ELSE IF L.stock_holdings[giver_key] < amount THEN Rejected(L, "not enough shares")
        ELSE givestocks_writes(L, giver_id, target_id, amount, stock_name)

-----------------------------------------------------------------------------
(* Names, tickers and the registry of StonkBot *)

\* Channel names and emoji tokens are sequences of characters; a ticker is
\* the string its characters spell.  ASCII lists the characters that occur,
\* in code point order, which is the order sorted() compares strings by.
ASCII_UPPERCASE ==
    <<"A", "B", "C", "D", "E", "F", "G", "H", "I", "J", "K", "L", "M",
      "N", "O", "P", "Q", "R", "S", "T", "U", "V", "W", "X", "Y", "Z">>
ASCII_LOWERCASE ==
    <<"a", "b", "c", "d", "e", "f", "g", "h", "i", "j", "k", "l", "m",
      "n", "o", "p", "q", "r", "s", "t", "u", "v", "w", "x", "y", "z">>
DIGITS == <<"0", "1", "2", "3", "4", "5", "6", "7", "8", "9">>
ASCII ==
    <<"-">> \o DIGITS \o <<":", "<", ">">> \o ASCII_UPPERCASE \o <<"_">> \o ASCII_LOWERCASE

Range(f) == {f[i] : i \in DOMAIN f}
RECURSIVE Join(_)
Join(chars) == IF chars = <<>> THEN "" ELSE Head(chars) \o Join(Tail(chars))
Ord(c) == CHOOSE i \in DOMAIN ASCII : ASCII[i] = c

\* a < b for two strings of characters, as Python compares str
RECURSIVE StrLess(_, _)
StrLess(a, b) ==
    IF b = <<>> THEN FALSE
    ELSE IF a = <<>> THEN TRUE
    ELSE IF Head(a) # Head(b) THEN Ord(Head(a)) < Ord(Head(b))
    ELSE StrLess(Tail(a), Tail(b))

\* The strings of S in increasing order.
RECURSIVE Ascending(_)
Ascending(S) ==
    IF S = {} THEN <<>>
    ELSE LET least == CHOOSE x \in S : \A y \in S \ {x} : StrLess(x, y)
         IN  <<least>> \o Ascending(S \ {least})

\* Mutant: the list is used in the order the set happened to be listed in.
sorted_not_sorting(listing) == listing

\* sorted(list(a_set)): `listing` is list(a_set), whose order is arbitrary.
sorted(listing) == Ascending(Range(listing))

\* Every order list(a_set) can have.
Listings(S) ==
    {l \in [1 .. Cardinality(S) -> S] : Range(l) = S}

\* str.upper() on one character
upper_char(c) ==
    IF c \in Range(ASCII_LOWERCASE)
    THEN ASCII_UPPERCASE[CHOOSE i \in DOMAIN ASCII_LOWERCASE : ASCII_LOWERCASE[i] = c]
    ELSE c

\* re.sub(r'[^a-zA-Z0-9]', '', s)
clean_string(s) ==
    SelectSeq(s, LAMBDA c : c \in Range(ASCII_LOWERCASE) \cup Range(ASCII_UPPERCASE)
                                    \cup Range(DIGITS))

\* full_emoji_str.split(':')[1]
get_emoji_name(full_emoji_str) ==
    LET colons == {i \in DOMAIN full_emoji_str : full_emoji_str[i] = ":"}
        first == SetMin(colons)
        second == SetMin(colons \ {first})
    IN  SubSeq(full_emoji_str, first + 1, second - 1)

\* What create_ticker_name returns when it finds nothing (None) or is
\* called without a name.
None == ""
ERROR_TICKER_CREATION == "ERROR_TICKER_CREATION"
TICKER_CHARS == 5
ALPHABET_SIZE == 26

\* The index tuple after t in the order of the five nested loops over a
\* string of n characters; <<>> after the last.
NextIndices(t, n) ==
    LET movable == {p \in 1 .. TICKER_CHARS : t[p] < n - (TICKER_CHARS - p)} IN
    IF movable = {} THEN <<>>
    ELSE LET p == CHOOSE q \in movable : \A r \in movable : r <= q
         IN  [q \in 1 .. TICKER_CHARS |->
                 IF q < p THEN t[q] ELSE t[p] + 1 + (q - p)]

\* Mutant: the first candidate is returned whether or not it is allocated.
FirstFree_unchecked(prefix, s, t, ticker_to_name) ==
    Join(<<prefix>> \o [q \in 1 .. TICKER_CHARS |-> s[t[q]]])

\* The loops of _iterate_possible_ticker_names from index tuple t on.
RECURSIVE FirstFree(_, _, _, _)
FirstFree(prefix, s, t, ticker_to_name) ==
    LET r == Join(<<prefix>> \o [q \in 1 .. TICKER_CHARS |-> s[t[q]]]) IN
    IF r \notin DOMAIN ticker_to_name THEN r
    ELSE IF NextIndices(t, Len(s)) = <<>> THEN None
    ELSE FirstFree(prefix, s, NextIndices(t, Len(s)), ticker_to_name)

_iterate_possible_ticker_names(prefix, s, ticker_to_name) ==
    IF Len(s) < TICKER_CHARS THEN None
    ELSE FirstFree(prefix, s, [q \in 1 .. TICKER_CHARS |-> q], ticker_to_name)

\* Mutant: the first of the five letters is the one that changes fastest.
Suffix_first_letter_fastest(n) ==
    [q \in 1 .. TICKER_CHARS |->
        ASCII_UPPERCASE[((n \div (ALPHABET_SIZE ^ (q - 1))) % ALPHABET_SIZE) + 1]]

\* The suffix built in the n-th round (from 0) of the five loops over range(26).
Suffix(n) ==
    [q \in 1 .. TICKER_CHARS |->
        ASCII_UPPERCASE[((n \div (ALPHABET_SIZE ^ (TICKER_CHARS - q))) % ALPHABET_SIZE) + 1]]

\* The suffix loops of create_ticker_name from round n on; the model follows
\* them for NumSuffixes rounds.
RECURSIVE TrySuffixes(_, _, _, _)
TrySuffixes(prefix, s, n, ticker_to_name) ==
    IF n >= NumSuffixes THEN None
    ELSE LET r == _iterate_possible_ticker_names(prefix, s \o Suffix(n), ticker_to_name)
         IN  IF r # None THEN r
             ELSE TrySuffixes(prefix, s, n + 1, ticker_to_name)

create_ticker_name(prefix, fullname, ticker_to_name) ==
    IF prefix = "" \/ fullname = <<>> THEN ERROR_TICKER_CREATION
    ELSE LET s == [i \in DOMAIN clean_string(fullname) |-> upper_char(clean_string(fullname)[i])]
             r == _iterate_possible_ticker_names(prefix, s, ticker_to_name)
         IN  IF Len(s) >= TICKER_CHARS /\ r # None THEN r
             ELSE TrySuffixes(prefix, s, 0, ticker_to_name)

-----------------------------------------------------------------------------
(* Counting activity: count_all_occurences_in_server *)

\* A Counter: the keys in the order they were first set, and the count of each.
Counter == [keys |-> <<>>, n |-> <<>>]
CounterAdd(c, key, k) ==
    IF key \in DOMAIN c.n THEN [c EXCEPT !.n[key] = @ + k]
    ELSE [keys |-> Append(c.keys, key), n |-> Put(c.n, key, k)]

\* The messages of one history, counted: msg_count and, for each word that is
\* in emoji_set, the number of times it occurs.
RECURSIVE CountWords(_, _, _)
CountWords(words, emoji_set, emoji_count) ==
    IF words = <<>> THEN emoji_count
    ELSE CountWords(Tail(words), emoji_set,
                    IF Head(words) \in emoji_set
                    THEN CounterAdd(emoji_count, Head(words), 1)
                    ELSE emoji_count)

RECURSIVE CountMessages(_, _, _)
CountMessages(messages, emoji_set, r) ==
    IF messages = <<>> THEN r
    ELSE CountMessages(Tail(messages), emoji_set,
                       [msg_count |-> r.msg_count + 1,
                        emoji_counts |-> CountWords(Head(messages), emoji_set, r.emoji_counts)])

\* A history is the messages it yields and whether the retrieval then raises
\* (discord.Forbidden or any other exception).
count_all_occurrences_in_channel(ch, emoji_set) ==
    CountMessages(ch.messages, emoji_set, [msg_count |-> 0, emoji_counts |-> Counter])

\* emoji_counter += other
RECURSIVE CounterUpdate(_, _, _)
CounterUpdate(c, other, i) ==
    IF i > Len(other.keys) THEN c
    ELSE CounterUpdate(CounterAdd(c, other.keys[i], other.n[other.keys[i]]), other, i + 1)

\* Mutant: what was counted before the retrieval raised is added all the same.
count_channel_keeping_partial(counters, name, ch, emoji_set) ==
    LET r == count_all_occurrences_in_channel(ch, emoji_set) IN
    [channel_counts |-> CounterAdd(counters.channel_counts, name, r.msg_count),
     emoji_counts |-> CounterUpdate(counters.emoji_counts, r.emoji_counts, 1)]

\* One round of the loop over the text channels: the try block and its two
\* except clauses.
count_channel(counters, name, ch, emoji_set) ==
    LET r == count_all_occurrences_in_channel(ch, emoji_set) IN
    IF ch.raises THEN counters
    ELSE [channel_counts |-> CounterAdd(counters.channel_counts, name, r.msg_count),
          emoji_counts |-> CounterUpdate(counters.emoji_counts, r.emoji_counts, 1)]

ServerCountResult == [channel_counts |-> Counter, emoji_counts |-> Counter]

\* counter[key] of a Counter: 0 for a key it does not hold
CounterGet(c, key) == IF key \in DOMAIN c.n THEN c.n[key] ELSE 0

-----------------------------------------------------------------------------
(* Startup: initialize_stocks after the 5 days of activity were counted *)

\* The memory of a StonkBot that has just been constructed.
StonkBot ==
    [emoji_set |-> {}, ticker_to_name |-> <<>>, name_to_ticker |-> <<>>,
     cogs |-> {}, loop |-> "stopped"]

\* Mutant: INSERT OR REPLACE for every name, with no look at the rows the
\* table already has.
initialize_stock_replacing(st, stocks, prefix, key, fullname, activity_count, d) ==
    LET ticker_name == create_ticker_name(prefix, fullname, st.bot.ticker_to_name)
    IN  [bot |-> [st.bot EXCEPT !.ticker_to_name = Put(@, ticker_name, key),
                                !.name_to_ticker = Put(@, key, ticker_name)],
         db |-> [st.db EXCEPT !.stocks =
                    Put(@, ticker_name,
                        [stock_value |-> get_initial_stock_value(activity_count, d),
                         stock_avail |-> INITIAL_AVAIL])]]

\* One round of either loop of initialize_stocks: the name gets a ticker, the
\* registry records it both ways, and a stock the table does not have yet is
\* inserted with its seed price.  `st` is the bot's memory `bot` and the
\* tables `db`.
initialize_stock(st, stocks, prefix, key, fullname, activity_count, d) ==
    LET ticker_name == create_ticker_name(prefix, fullname, st.bot.ticker_to_name)
        B == [st.bot EXCEPT !.ticker_to_name = Put(@, ticker_name, key),
                            !.name_to_ticker = Put(@, key, ticker_name)]
    IN  IF ticker_name \in stocks \/ ticker_name \in DOMAIN st.db.stocks
        THEN [bot |-> B, db |-> st.db]   \* continue, or INSERT OR IGNORE ignores
        ELSE [bot |-> B,
              db |-> [st.db EXCEPT !.stocks =
                         Put(@, ticker_name,
                             [stock_value |-> get_initial_stock_value(activity_count, d),
                              stock_avail |-> INITIAL_AVAIL])]]

RECURSIVE InitializeChannels(_, _, _, _, _)
InitializeChannels(st, stocks, text_channels, counts, d) ==
    IF text_channels = <<>> THEN st
    ELSE InitializeChannels(
             initialize_stock(st, stocks, "C", Head(text_channels), Head(text_channels),
                              CounterGet(counts.channel_counts, Head(text_channels)), d),
             stocks, Tail(text_channels), counts, d)

RECURSIVE InitializeEmojis(_, _, _, _, _)
InitializeEmojis(st, stocks, sorted_emoji_list, counts, d) ==
    IF sorted_emoji_list = <<>> THEN st
    ELSE InitializeEmojis(
             initialize_stock(st, stocks, "E", Head(sorted_emoji_list),
                              get_emoji_name(Head(sorted_emoji_list)),
                              CounterGet(counts.emoji_counts, Head(sorted_emoji_list)), d),
             stocks, Tail(sorted_emoji_list), counts, d)

\* Lines 86 to 126: the channels in list order, then the emojis in sorted
\* order; `listing` is list(self.emoji_set).  The commit is the caller's.
initialize_stocks(B, L, stocks, text_channels, listing, counts, d) ==
    InitializeEmojis(
        InitializeChannels([bot |-> B, db |-> L], stocks, text_channels, counts, d),
        stocks, sorted(listing), counts, d)

-----------------------------------------------------------------------------
(* The guild the bot is connected to *)

general == <<"g", "e", "n", "e", "r", "a", "l">>
gen_eral == <<"g", "e", "n", "-", "e", "r", "a", "l">>
dev == <<"d", "e", "v">>
kekw == [animated |-> FALSE, name |-> <<"k", "e", "k", "w">>, id |-> <<"1">>]
kekw_animated == [animated |-> TRUE, name |-> <<"k", "e", "k", "w">>, id |-> <<"2">>]

\* The guilds the bot starts in: the one whose tickers the commands trade,
\* and one whose names ask for the same letters.
Guilds ==
    {[text_channels |-> <<general>>, emojis |-> {kekw}],
     [text_channels |-> <<general, gen_eral>>, emojis |-> {kekw, kekw_animated}]}

\* The channel that is created while the bot runs.
NewChannel == dev

\* f"<{'a' if emoji.animated else ''}:{emoji.name}:{emoji.id}>"
EmojiStr(emoji) ==
    <<"<">> \o (IF emoji.animated THEN <<"a">> ELSE <<>>) \o <<":">> \o emoji.name
        \o <<":">> \o emoji.id \o <<">">>

get_emoji_set(G) == {EmojiStr(emoji) : emoji \in G.emojis}

\* What channel.history yields: the messages (each the words of its content),
\* and whether the retrieval then raises.
Message == <<EmojiStr(kekw), <<"h", "i">>, EmojiStr(kekw), EmojiStr(kekw_animated)>>
Histories ==
    {[messages |-> <<>>, raises |-> FALSE],
     [messages |-> [i \in 1 .. MIN_ACTIVITY |-> Message], raises |-> FALSE],
     [messages |-> <<Message>>, raises |-> TRUE]}

\* create_db on a new file: the empty tables.
create_db == [users |-> <<>>, stock_holdings |-> <<>>, update_time |-> 0, stocks |-> <<>>]

\* A count that is not running, and one that starts over the text channels.
NoCount == [active |-> FALSE, todo |-> <<>>, stocks |-> {}, result |-> ServerCountResult]
StartCount(G, stocks) ==
    [active |-> TRUE, todo |-> G.text_channels, stocks |-> stocks, result |-> ServerCountResult]
NoJobs == [init |-> NoCount, cycle |-> NoCount]

NothingSeen ==
    [ready |-> <<>>, runs |-> <<>>, log |-> [init |-> <<>>, cycle |-> <<>>],
     start |-> <<>>, restarts |-> 0]

-----------------------------------------------------------------------------
(* The state machine *)

NoArgs == [user_id |-> 0, quantity |-> 0, stock_name |-> "", amount |-> NaN, gamertag |-> <<>>]
NoReply == [command |-> "none", outcome |-> "none"] @@ NoArgs

Reply(command, a, outcome) == [command |-> command, outcome |-> outcome] @@ a

\* The tables after initialize_stocks on a fresh database: one row per ticker,
\* seeded from its activity, 10000 available; no user has registered.  The
\* registry holds the ticker of the channel and of the emoji, and the update
\* loop has been started.
Init ==
    /\ \E d \in SeedDraws :
          db = [users |-> <<>>,
                stock_holdings |-> <<>>,
                update_time |-> 0,
                stocks |-> [t \in Tickers |->
                              [stock_value |-> get_initial_stock_value(SeedActivity[t], d),
                               stock_avail |-> INITIAL_AVAIL]]]
    /\ disk = db
    /\ pc = [t \in Tasks |-> "idle"]
    /\ args = [t \in Tasks |-> NoArgs]
    /\ locked = FALSE
    /\ waiters = <<>>
    /\ reply = NoReply
    /\ steps = 0
    /\ guild = [text_channels |-> <<general>>, emojis |-> {kekw}]
    /\ \E d \in SeedDraws :
          bot = [initialize_stocks([StonkBot EXCEPT !.cogs = {"StonkCog"},
                                                    !.emoji_set = get_emoji_set(guild)],
                                   create_db, {}, guild.text_channels,
                                   <<EmojiStr(kekw)>>, ServerCountResult, d).bot
                     EXCEPT !.loop = "running"]
    /\ job = NoJobs
    /\ seen = NothingSeen

\* A handler's ledger section takes effect: the connection sees its writes,
\* and a commit makes everything the connection sees durable.
Apply(res) ==
    /\ db' = res.db
    /\ disk' = IF res.commit THEN res.db ELSE disk

\* A command without an await before its reply: one uninterrupted segment.
Run(command, a, res) ==
    /\ Apply(res)
    /\ reply' = Reply(command, a, res.outcome)
    /\ UNCHANGED <<pc, args, locked, waiters>>
    /\ UNCHANGED startup_vars

\* One more command or cycle of those that can be repeated without end.
Count ==
    /\ steps < MaxSteps
    /\ steps' = steps + 1

Register ==
    \E u \in UserIds, g \in NewGamertagArgs :
        /\ Run("register", [NoArgs EXCEPT !.user_id = u, !.gamertag = g],
               register(db, u, g))
        /\ UNCHANGED steps

Rename ==
    \E u \in UserIds, g \in NewGamertagArgs :
        /\ Run("rename", [NoArgs EXCEPT !.user_id = u, !.gamertag = g],
               rename_gamertag(db, u, g))
        /\ Count

Sell ==
    \E u \in UserIds, q \in QuantityArgs, s \in TradeStockArgs :
        /\ Run("sell", [NoArgs EXCEPT !.user_id = u, !.quantity = q, !.stock_name = s],
               sell_stock(db, u, q, s))
        /\ Count

GiveMoney ==
    \E u \in UserIds, a \in AmountArgs, g \in GamertagArgs :
        /\ Run("givemoney", [NoArgs EXCEPT !.user_id = u, !.amount = a, !.gamertag = g],
               givemoney(db, u, a, g))
        /\ Count

GiveStocks ==
    \E u \in UserIds, q \in QuantityArgs, s \in GiftStockArgs, g \in GamertagArgs :
        /\ Run("givestocks",
               [NoArgs EXCEPT !.user_id = u, !.quantity = q, !.stock_name = s, !.gamertag = g],
               givestocks(db, u, q, s, g))
        /\ Count

\* Mutant: the handler does not look at the lock.
LockFree_ignored == TRUE

\* asyncio.Lock.acquire() returns at once when the lock is free and nobody waits.
LockFree == ~locked /\ waiters = <<>>

\* buy_stock from taking the lock to its reply (or to the exception that
\* leaves `async with` and releases the lock).
BuySection(t, a) ==
    LET res == buy_stock(db, a.user_id, a.quantity, a.stock_name) IN
    /\ Apply(res)
    /\ reply' = Reply("buy", a, res.outcome)
    /\ args' = [args EXCEPT ![t] = NoArgs]
    /\ IF res.outcome = "error"
       THEN pc' = [pc EXCEPT ![t] = "idle"] /\ locked' = FALSE
       ELSE pc' = [pc EXCEPT ![t] = "reply"] /\ locked' = TRUE

\* The invocations not in flight; a new one takes the first of them.
Idle == {t \in Tasks : pc[t] = "idle"}

\* $buy arrives: the handler starts, and runs through if the lock is free.
BuyIssue(t) ==
    \E u \in UserIds, q \in QuantityArgs, s \in TradeStockArgs :
        LET a == [NoArgs EXCEPT !.user_id = u, !.quantity = q, !.stock_name = s] IN
        /\ Idle # {} /\ t = SetMin(Idle)
        /\ Count
        /\ UNCHANGED startup_vars
        /\ IF LockFree
           THEN BuySection(t, a) /\ UNCHANGED waiters
           ELSE /\ pc' = [pc EXCEPT ![t] = "wait"]
                /\ args' = [args EXCEPT ![t] = a]
                /\ waiters' = Append(waiters, t)
                /\ UNCHANGED <<db, disk, locked, reply>>

\* The first waiter, woken by release(), takes the lock and runs.
BuyWake(t) ==
    /\ pc[t] = "wait"
    /\ ~locked
    /\ waiters # <<>> /\ Head(waiters) = t
    /\ waiters' = Tail(waiters)
    /\ BuySection(t, args[t])
    /\ UNCHANGED steps
    /\ UNCHANGED startup_vars

\* ctx.send returns: the handler leaves `async with`, releasing the lock.
BuyReplied(t) ==
    /\ pc[t] = "reply"
    /\ pc' = [pc EXCEPT ![t] = "idle"]
    /\ locked' = FALSE
    /\ UNCHANGED <<db, disk, args, waiters, reply, steps>>
    /\ UNCHANGED startup_vars

\* The scheduler fires and the update runs to its end.
UpdateStocksTask ==
    \E draws \in [Tickers -> CycleDraws] :
        /\ Count
        /\ db' = update_stocks_task(db, draws)
        /\ disk' = db'
        /\ reply' = Reply("update", NoArgs, "ok")
        /\ UNCHANGED <<pc, args, locked, waiters>>
        /\ UNCHANGED startup_vars

Next ==
    \/ UpdateStocksTask
    \/ Register
    \/ Rename
    \/ Sell
    \/ GiveMoney
    \/ GiveStocks
    \/ \E t \in Tasks : BuyIssue(t)
    \/ \E t \in Tasks : BuyWake(t)
    \/ \E t \in Tasks : BuyReplied(t)

Spec == Init /\ [][Next]_vars

-----------------------------------------------------------------------------
(* Startup and the update loop: from a new process to its valuation cycles *)

\* The process starts on a new database file in one of the guilds.
BootInit ==
    /\ db = create_db
    /\ disk = db
    /\ pc = [t \in Tasks |-> "idle"]
    /\ args = [t \in Tasks |-> NoArgs]
    /\ locked = FALSE
    /\ waiters = <<>>
    /\ reply = NoReply
    /\ steps = 0
    /\ guild \in Guilds
    /\ bot = StonkBot
    /\ job = NoJobs
    /\ seen = NothingSeen

commands == <<pc, args, locked, waiters, steps>>

\* Mutant: the update loop is started before the stocks are initialized.
on_ready_starting_first(B, G) ==
    [B EXCEPT !.cogs = @ \cup {"StonkCog"}, !.emoji_set = get_emoji_set(G),
              !.loop = "running"]

\* on_ready up to its first suspension: add_cog, then initialize_stocks to
\* the first history it awaits.
on_ready(B, G) ==
    [B EXCEPT !.cogs = @ \cup {"StonkCog"}, !.emoji_set = get_emoji_set(G)]

\* The gateway reports ready.  add_cog raises when the cog is loaded already
\* (the session was re-established): on_ready ends there.
OnReady ==
    IF "StonkCog" \in bot.cogs
    THEN UNCHANGED vars
    ELSE /\ bot' = on_ready(bot, guild)
         /\ job' = [job EXCEPT !.init = StartCount(guild, DOMAIN db.stocks)]
         /\ seen' = [seen EXCEPT !.ready = <<guild>>, !.log.init = <<>>]
         /\ UNCHANGED <<db, disk, commands, reply, guild>>

\* The history of the next text channel has been read, or has raised.
CountChannel(who) ==
    /\ job[who].active /\ job[who].todo # <<>>
    /\ \E ch \in Histories :
          /\ job' = [job EXCEPT ![who].todo = Tail(@),
                                ![who].result = count_channel(@, Head(job[who].todo), ch,
                                                              bot.emoji_set)]
          /\ seen' = [seen EXCEPT !.log[who] =
                         Append(@, [name |-> Head(job[who].todo), ch |-> ch])]
    /\ UNCHANGED <<db, disk, commands, reply, guild, bot>>

\* The 5 days are counted: initialize_stocks runs to its commit, and on_ready
\* starts the update loop.
InitializeStocks ==
    /\ job.init.active /\ job.init.todo = <<>>
    /\ \E listing \in Listings(bot.emoji_set), d \in SeedDraws :
          LET st == initialize_stocks(bot, db, job.init.stocks, guild.text_channels,
                                      listing, job.init.result, d)
          IN  /\ db' = st.db
              /\ disk' = st.db
              /\ bot' = [st.bot EXCEPT !.loop = "running"]
              /\ seen' = [seen EXCEPT
                             !.runs = Append(@, [text_channels |-> guild.text_channels,
                                                 emoji_set |-> bot.emoji_set,
                                                 name_to_ticker |-> st.bot.name_to_ticker,
                                                 ticker_to_name |-> st.bot.ticker_to_name]),
                             !.log.init = <<>>]
    /\ job' = [job EXCEPT !.init = NoCount]
    /\ UNCHANGED <<commands, reply, guild>>

\* The update loop fires: update_stocks_task starts counting the last hour.
UpdateStart ==
    /\ bot.loop = "running"
    /\ ~job.cycle.active
    /\ db.update_time < MaxCycles
    /\ job' = [job EXCEPT !.cycle = StartCount(guild, {})]
    /\ seen' = [seen EXCEPT !.log.cycle = <<>>, !.start = db.stocks]
    /\ UNCHANGED <<db, disk, commands, reply, guild, bot>>

\* The loops of increase_all_stock_prices over the counted names from the
\* i-th on: a name the registry does not hold raises KeyError, and the prices
\* written before it stay written on the connection.
RECURSIVE IncreaseCounted(_, _, _, _)
IncreaseCounted(L, name_to_ticker, counter, i) ==
    IF i > Len(counter.keys) THEN Result(L, FALSE, "ok")
    ELSE LET name == counter.keys[i] IN
         IF name \notin DOMAIN name_to_ticker THEN Raised(L)
         ELSE LET stock_name == name_to_ticker[name] IN
              IncreaseCounted(
                  IF stock_name \in DOMAIN L.stocks
                  THEN [L EXCEPT !.stocks[stock_name].stock_value =
                           get_increase_stock_value(@, counter.n[name])]
                  ELSE L,
                  name_to_ticker, counter, i + 1)

\* Mutant: the steps after the count work on the stock rows of its start.
tables_after_count_stale(L, start) == [L EXCEPT !.stocks = start]

\* The tables the steps after the count work on: each of them SELECTs its
\* rows when it runs, so they are the ones the connection sees by then, not
\* the stock rows `start` of when the count began.
tables_after_count(L, start) == L

\* The hour is counted: the rest of update_stocks_task runs without an await.
\* An exception ends the loop for good.
UpdateFinish ==
    /\ job.cycle.active /\ job.cycle.todo = <<>>
    /\ \E draw \in CycleDraws :
          LET channels == IncreaseCounted(tables_after_count(db, seen.start),
                                          bot.name_to_ticker, job.cycle.result.channel_counts, 1)
              emojis == IncreaseCounted(channels.db, bot.name_to_ticker,
                                        job.cycle.result.emoji_counts, 1)
              draws == [t \in DOMAIN db.stocks |-> draw]
          IN  IF channels.outcome = "error" \/ emojis.outcome = "error"
              THEN /\ db' = (IF channels.outcome = "error" THEN channels.db ELSE emojis.db)
                   /\ bot' = [bot EXCEPT !.loop = "failed"]
                   /\ reply' = Reply("update", NoArgs, "error")
                   /\ UNCHANGED disk
              ELSE /\ db' = store_update_time(
                                decay_all_stock_prices(
                                    avail_based_price_adjustment_all_stocks(emojis.db, draws),
                                    draws))
                   /\ disk' = db'
                   /\ reply' = Reply("update", NoArgs, "ok")
                   /\ UNCHANGED bot
    /\ job' = [job EXCEPT !.cycle = NoCount]
    /\ seen' = [seen EXCEPT !.log.cycle = <<>>, !.start = <<>>]
    /\ UNCHANGED <<commands, guild>>

\* A text channel is created in the guild (here: while no count is under way).
ChannelCreate ==
    /\ NewChannel \notin Range(guild.text_channels)
    /\ ~job.init.active /\ ~job.cycle.active
    /\ guild' = [guild EXCEPT !.text_channels = Append(@, NewChannel)]
    /\ UNCHANGED <<db, disk, commands, reply, bot, job, seen>>

\* The text channel general is deleted from the guild (here: while no count
\* is under way).
ChannelDelete ==
    /\ general \in Range(guild.text_channels)
    /\ ~job.init.active /\ ~job.cycle.active
    /\ guild' = [guild EXCEPT !.text_channels =
                     SelectSeq(@, LAMBDA name : name # general)]
    /\ UNCHANGED <<db, disk, commands, reply, bot, job, seen>>

\* The process is stopped and started again (here: after its startup, before
\* its first update): what the connection had not committed is gone, and so
\* is the memory of the bot.
Restart ==
    /\ seen.restarts < MaxRestarts
    /\ ~job.init.active /\ ~job.cycle.active
    /\ bot.loop = "running" /\ db.update_time = 0
    /\ db' = disk
    /\ bot' = StonkBot
    /\ job' = NoJobs
    /\ seen' = [seen EXCEPT !.restarts = @ + 1, !.ready = <<>>, !.start = <<>>,
                            !.log = [init |-> <<>>, cycle |-> <<>>]]
    /\ UNCHANGED <<disk, commands, reply, guild>>

\* The first $register a1 (here: once the update loop has been started).
RegisterFirst ==
    /\ "StonkCog" \in bot.cogs
    /\ bot.loop # "stopped"
    /\ 1 \notin DOMAIN db.users
    /\ Run("register", [NoArgs EXCEPT !.user_id = 1, !.gamertag = <<"a", "1">>],
           register(db, 1, <<"a", "1">>))
    /\ UNCHANGED steps

\* $buy 1 cgener from user 1 while initialize_stocks awaits the histories:
\* the cog is loaded before the initialization starts.
BuyWhileScanning ==
    LET a == [NoArgs EXCEPT !.user_id = 1, !.quantity = 1, !.stock_name = "cgener"] IN
    /\ job.init.active /\ "StonkCog" \in bot.cogs
    /\ 1 \in DOMAIN db.users /\ <<1, "CGENER">> \notin DOMAIN db.stock_holdings
    /\ pc[1] = "idle" /\ LockFree
    /\ BuySection(1, a)
    /\ UNCHANGED <<waiters, steps>>
    /\ UNCHANGED startup_vars

BootNext ==
    \/ OnReady
    \/ \E who \in {"init", "cycle"} : CountChannel(who)
    \/ InitializeStocks
    \/ UpdateStart
    \/ UpdateFinish
    \/ ChannelCreate
    \/ ChannelDelete
    \/ Restart
    \/ RegisterFirst
    \/ BuyWhileScanning
    \/ BuyReplied(1)

Boot == BootInit /\ [][BootNext]_vars

\* Boot under the scheduling of the event loop: a history that is awaited
\* returns (or raises), and the coroutine that awaited it runs on.
BootFair ==
    /\ Boot
    /\ WF_vars(CountChannel("cycle"))
    /\ WF_vars(UpdateFinish)

-----------------------------------------------------------------------------
(* The availability step on its own, hour after hour *)

\* The draws of one availability step: r = 0.05, the mean of the normal
\* distribution, and the two ends of uniform(0, 25).
AvailDraws ==
    {[count |-> 0, r |-> 5, jitter |-> 0, decay |-> 15],
     [count |-> 0, r |-> 5, jitter |-> 25, decay |-> 15]}

AdjustAvailability ==
    \E draw \in AvailDraws :
        /\ db' = avail_based_price_adjustment_all_stocks(db, [t \in DOMAIN db.stocks |-> draw])
        /\ disk' = db'
        /\ reply' = Reply("avail", NoArgs, "ok")
        /\ UNCHANGED <<pc, args, locked, waiters, steps>>
        /\ UNCHANGED startup_vars

AvailSpec == Init /\ [][AdjustAvailability]_vars

-----------------------------------------------------------------------------
(* The increase step on its own, on prices around the steps of the ladder *)

\* Prices (cents) below, at and above the thresholds of the ladder.
LadderPrices == {0, 9990, 10000, 19950, 29990, 39990, 49995, 50000}

LadderInit ==
    /\ \E price \in [Tickers -> LadderPrices] :
          db = [create_db EXCEPT !.stocks =
                   [t \in Tickers |-> [stock_value |-> price[t], stock_avail |-> INITIAL_AVAIL]]]
    /\ disk = db
    /\ pc = [t \in Tasks |-> "idle"]
    /\ args = [t \in Tasks |-> NoArgs]
    /\ locked = FALSE
    /\ waiters = <<>>
    /\ reply = NoReply
    /\ steps = 0
    /\ guild = [text_channels |-> <<general>>, emojis |-> {kekw}]
    /\ bot = StonkBot
    /\ job = NoJobs
    /\ seen = NothingSeen

\* increase_stock_price of every stock with the same number of messages.
IncreasePrices ==
    \E total_messages \in 0 .. MaxUnits :
        /\ Count
        /\ db' = increase_all_stock_prices(db, [t \in DOMAIN db.stocks |->
                                                   [count |-> total_messages]])
        /\ disk' = db'
        /\ reply' = Reply("increase", [NoArgs EXCEPT !.quantity = total_messages], "ok")
        /\ UNCHANGED <<pc, args, locked, waiters>>
        /\ UNCHANGED startup_vars

LadderSpec == LadderInit /\ [][IncreasePrices]_vars

-----------------------------------------------------------------------------
(* Trading while the update loop runs: the hourly update with its count *)

\* A user who has not registered sends $register with a gamertag of their own.
RegisterNew ==
    \E u \in UserIds :
        LET g == IF u = 1 THEN <<"a", "1">> ELSE <<"b", "2">> IN
        /\ u \notin DOMAIN db.users
        /\ Run("register", [NoArgs EXCEPT !.user_id = u, !.gamertag = g], register(db, u, g))
        /\ UNCHANGED steps

\* The commands that trade, and the update from the loop's firing through
\* the histories it awaits to its writes.
MarketNext ==
    \/ RegisterNew
    \/ Sell
    \/ GiveStocks
    \/ \E t \in Tasks : BuyIssue(t)
    \/ \E t \in Tasks : BuyWake(t)
    \/ \E t \in Tasks : BuyReplied(t)
    \/ UpdateStart
    \/ CountChannel("cycle")
    \/ UpdateFinish

Market == Init /\ [][MarketNext]_vars

-----------------------------------------------------------------------------
(* Ticker allocation on its own: create_ticker_name over a growing registry *)

\* Names of 7 and of 5 letters, one with a character that is cleaned away,
\* one too short, one with nothing left once cleaned.
AllocNames == {general, gen_eral, <<"a", "b", "c", "d", "e">>, dev, <<"-">>}

\* create_ticker_name for a name, and the two registry writes that follow it
\* in initialize_stocks.
Allocate ==
    \E prefix \in {"C", "E"}, fullname \in AllocNames :
        LET ticker_name == create_ticker_name(prefix, fullname, bot.ticker_to_name) IN
        /\ Cardinality(DOMAIN bot.ticker_to_name) < MaxTickers
        /\ bot' = [bot EXCEPT !.ticker_to_name = Put(@, ticker_name, fullname),
                              !.name_to_ticker = Put(@, fullname, ticker_name)]
        /\ reply' = ("prefix" :> prefix)
                        @@ Reply("allocate", [NoArgs EXCEPT !.stock_name = ticker_name,
                                                            !.gamertag = fullname], "ok")
        /\ UNCHANGED <<db, disk, commands, guild, job, seen>>

AllocSpec == BootInit /\ [][Allocate]_vars

-----------------------------------------------------------------------------
(* Seeding on its own: the first stock of a new database *)

\* Activity counts around 5 and around 120, and those whose hourly average
\* is half-way between two integers.
SeedCounts == (0 .. 10) \cup (115 .. 125) \cup {179, 180, 181, 299, 300, 301, MaxActivity}

\* The round of initialize_stocks for the channel general on empty tables,
\* with the activity counted for it.
SeedStock ==
    \E activity_count \in SeedCounts, d \in DecayDraws :
        LET st == initialize_stock([bot |-> bot, db |-> db], {}, "C", general, general,
                                   activity_count, d)
        IN  /\ db.stocks = <<>>
            /\ db' = st.db
            /\ disk' = st.db
            /\ bot' = st.bot
            /\ reply' = Reply("seed", [NoArgs EXCEPT !.quantity = activity_count,
                                                    !.amount = Num(d)], "ok")
            /\ UNCHANGED <<commands, guild, job, seen>>

SeedSpec == BootInit /\ [][SeedStock]_vars

-----------------------------------------------------------------------------
(* The ledger under the commands that move shares and money, from a user's
   first purchase on.  The first purchase of a user who holds nothing is not
   counted among the steps, as registering is not: shares have to be held
   before a sale or a gift has anything to move. *)
BuyFirst(t) ==
    \E u \in UserIds, q \in QuantityArgs, s \in TradeStockArgs :
        LET a == [NoArgs EXCEPT !.user_id = u, !.quantity = q, !.stock_name = s] IN
        /\ Idle # {} /\ t = SetMin(Idle)
        /\ LockFree
        /\ \A k \in DOMAIN db.stock_holdings : k[1] # u
        /\ BuySection(t, a)
        /\ UNCHANGED <<waiters, steps>>
        /\ UNCHANGED startup_vars

LedgerNext ==
    \/ RegisterNew
    \/ \E t \in Tasks : BuyFirst(t)
    \/ \E t \in Tasks : BuyReplied(t)
    \/ Sell
    \/ GiveMoney
    \/ GiveStocks

Ledger == Init /\ [][LedgerNext]_vars

-----------------------------------------------------------------------------
(* Reading a step: which handler's ledger section ran in it *)

\* A buy took the lock and ran its ledger section through to its reply.
BuySectionStep == \E t \in Tasks : pc[t] # "reply" /\ pc'[t] = "reply"

\* A command other than buy ran (reply' holds its arguments and outcome).
RunStep(command) == steps' = steps + 1 /\ pc' = pc /\ reply'.command = command

\* The quantity a user holds of a stock; no row counts as none held.
Held(L, user_id, stock_name) ==
    IF <<user_id, stock_name>> \in DOMAIN L.stock_holdings
    THEN L.stock_holdings[<<user_id, stock_name>>]
    ELSE 0

\* Everything of a table outside the given keys is as it was.
SameExcept(f, g, keys) ==
    /\ DOMAIN f \ keys = DOMAIN g \ keys
    /\ \A k \in DOMAIN f \ keys : f[k] = g[k]

-----------------------------------------------------------------------------
(* C1: buys are serialized.  At most one buy is inside `async with buy_lock`
   at any time, it is there exactly when the lock is held, and a buy that
   succeeds takes no more than the stock had available at that moment. *)

InBuyLock == {t \in Tasks : pc[t] = "reply"}

C1_OneBuyAtATime ==
    /\ Cardinality(InBuyLock) <= 1
    /\ locked <=> InBuyLock # {}

C1_NoOverselling ==
    (BuySectionStep /\ reply'.outcome = "ok") =>
        LET stock_name == upper(reply'.stock_name) IN
        /\ reply'.quantity <= db.stocks[stock_name].stock_avail
        /\ db'.stocks[stock_name].stock_avail =
               db.stocks[stock_name].stock_avail - reply'.quantity

C1_BuysSerialized == [](C1_OneBuyAtATime) /\ [][C1_NoOverselling]_vars

\* A buy waits for the lock while another buy, which succeeded, holds it.
C1_Witness ==
    \E t1, t2 \in Tasks :
        /\ pc[t1] = "reply" /\ pc[t2] = "wait"
        /\ reply.command = "buy" /\ reply.outcome = "ok"

-----------------------------------------------------------------------------
(* C2: a buy that succeeds takes quantity Q from the stock's available,
   price * Q from the buyer's balance, adds Q to the buyer's holding of the
   stock (a new row of Q when there was none), commits, and changes nothing
   else: not the price, no other stock, no other user, no other holding. *)

C2_BuyStep ==
    (BuySectionStep /\ reply'.outcome = "ok") =>
        LET u == reply'.user_id
            q == reply'.quantity
            name == upper(reply'.stock_name)
            P == db.stocks[name].stock_value
            A == db.stocks[name].stock_avail
            B == Val(db.users[u].balance)
        IN  /\ db'.stocks[name] = [stock_value |-> P, stock_avail |-> A - q]
            /\ SameExcept(db'.stocks, db.stocks, {name})
            /\ db'.users[u] = [db.users[u] EXCEPT !.balance = Num(B - P * q)]
            /\ SameExcept(db'.users, db.users, {u})
            /\ <<u, name>> \in DOMAIN db'.stock_holdings
            /\ db'.stock_holdings[<<u, name>>] = Held(db, u, name) + q
            /\ SameExcept(db'.stock_holdings, db.stock_holdings, {<<u, name>>})
            /\ db'.update_time = db.update_time
            /\ disk' = db'

C2_BuyEffect == [][C2_BuyStep]_vars

\* A buy has succeeded for a user who held the stock already.
C2_Witness ==
    /\ reply.command = "buy" /\ reply.outcome = "ok"
    /\ \E t \in Tasks : pc[t] = "reply"
    /\ Held(db, reply.user_id, upper(reply.stock_name)) > reply.quantity

-----------------------------------------------------------------------------
(* C3: a buy is rejected, and leaves the tables (as seen and as committed)
   exactly as they were, when the user is not registered, the ticker is
   unknown, the quantity is not positive or exceeds the available, the price
   is not positive, or the balance is less than price * quantity. *)

C3_BuyRejections ==
    {"not registered", "invalid stock", "not positive", "not available", "no",
     "insufficient funds"}

C3_BuyRejectCase(L, user_id, quantity, stock_name) ==
    \/ user_id \notin DOMAIN L.users
    \/ stock_name \notin DOMAIN L.stocks
    \/ quantity <= 0
    \/ /\ stock_name \in DOMAIN L.stocks
       /\ \/ quantity > L.stocks[stock_name].stock_avail
          \/ L.stocks[stock_name].stock_value <= 0
          \/ /\ user_id \in DOMAIN L.users
             /\ IsNum(L.users[user_id].balance)
             /\ Val(L.users[user_id].balance) < L.stocks[stock_name].stock_value * quantity

\* A buy ran its ledger section and raised instead of replying.
BuyRaisedStep ==
    /\ reply'.command = "buy" /\ reply'.outcome = "error"
    /\ \E t \in Tasks :
          \/ pc[t] = "idle" /\ pc' = pc /\ steps' = steps + 1
          \/ pc[t] = "wait" /\ pc'[t] = "idle"

C3_RejectedBuyStep ==
    ((BuySectionStep \/ BuyRaisedStep)
        /\ C3_BuyRejectCase(db, reply'.user_id, reply'.quantity, upper(reply'.stock_name)))
    => /\ reply'.outcome \in C3_BuyRejections
       /\ db' = db
       /\ disk' = disk

C3_RejectedBuyChangesNothing == [][C3_RejectedBuyStep]_vars

\* A registered user asked for shares that were available and listed, and
\* could not pay for them.
C3_Witness ==
    /\ reply.command = "buy" /\ reply.outcome = "insufficient funds"
    /\ \E t \in Tasks : pc[t] = "reply"

-----------------------------------------------------------------------------
(* C4: in every reachable state, whatever integer quantities the commands
   were given, every stock's available quantity is at least 0. *)

C4_AvailNonNegative ==
    \A stock_name \in DOMAIN db.stocks : db.stocks[stock_name].stock_avail >= 0

-----------------------------------------------------------------------------
(* C5: in every reachable state, whatever quantities and amounts the
   commands were given, every registered user's balance is at least 0. *)

C5_BalanceNonNegative ==
    \A user_id \in DOMAIN db.users :
        IsNum(db.users[user_id].balance) => Val(db.users[user_id].balance) >= 0

-----------------------------------------------------------------------------
(* C6: every row of the committed holdings table has a quantity above 0: a
   holding that a sale or a gift brings to zero is deleted. *)

C6_HoldingsPositive ==
    \A key \in DOMAIN disk.stock_holdings : disk.stock_holdings[key] > 0

-----------------------------------------------------------------------------
(* C7: a sell of Q that succeeds at price P adds Q to the stock's available
   and P * Q to the seller's balance, takes exactly Q from the seller's
   holding, whose row is deleted exactly when nothing remains, and leaves the
   price, the other stocks, users and holdings as they were. *)

C7_SellStep ==
    (RunStep("sell") /\ reply'.outcome = "ok") =>
        LET u == reply'.user_id
            q == reply'.quantity
            name == upper(reply'.stock_name)
            P == db.stocks[name].stock_value
            A == db.stocks[name].stock_avail
            B == Val(db.users[u].balance)
            H == db.stock_holdings[<<u, name>>]
        IN  /\ db'.stocks[name] = [stock_value |-> P, stock_avail |-> A + q]
            /\ SameExcept(db'.stocks, db.stocks, {name})
            /\ db'.users[u] = [db.users[u] EXCEPT !.balance = Num(B + P * q)]
            /\ SameExcept(db'.users, db.users, {u})
            /\ Held(db', u, name) = H - q
            /\ <<u, name>> \notin DOMAIN db'.stock_holdings <=> H - q = 0
            /\ SameExcept(db'.stock_holdings, db.stock_holdings, {<<u, name>>})
            /\ db'.update_time = db.update_time
            /\ disk' = db'

C7_SellEffect == [][C7_SellStep]_vars

\* A user has sold the whole of a holding.
C7_Witness ==
    /\ reply.command = "sell" /\ reply.outcome = "ok" /\ reply.quantity > 0
    /\ <<reply.user_id, upper(reply.stock_name)>> \notin DOMAIN db.stock_holdings
    /\ db.stocks[upper(reply.stock_name)].stock_avail = INITIAL_AVAIL

-----------------------------------------------------------------------------
(* C8: a sell that is refused (user not registered, unknown ticker, fewer
   shares held than asked) and a gift that is refused (shares: amount not
   positive, unknown handle, no row for the stock, fewer shares than asked;
   money: amount not positive, unknown handle, balance below the amount or
   a sender who is not registered) do not succeed and leave every row as it
   was, as seen and as committed. *)

C8_SellRejectCase(L, user_id, quantity, stock_name) ==
    \/ user_id \notin DOMAIN L.users
    \/ stock_name \notin DOMAIN L.stocks
    \/ Held(L, user_id, stock_name) < quantity

C8_GiveStocksRejectCase(L, giver_id, amount, stock_name, to_gamertag) ==
    \/ amount <= 0
    \/ UsersWithGamertag(L, to_gamertag) = {}
    \/ <<giver_id, stock_name>> \notin DOMAIN L.stock_holdings
    \/ Held(L, giver_id, stock_name) < amount

C8_GiveMoneyRejectCase(L, giver_id, amount, to_gamertag) ==
    \/ FLeq(amount, Num(0))
    \/ UsersWithGamertag(L, to_gamertag) = {}
    \/ giver_id \notin DOMAIN L.users
    \/ /\ giver_id \in DOMAIN L.users
       /\ FLess(L.users[giver_id].balance, amount)

C8_RejectedStep ==
    (\/ /\ RunStep("sell")
        /\ C8_SellRejectCase(db, reply'.user_id, reply'.quantity, upper(reply'.stock_name))
     \/ /\ RunStep("givestocks")
        /\ C8_GiveStocksRejectCase(db, reply'.user_id, reply'.quantity, reply'.stock_name,
                                reply'.gamertag)
     \/ /\ RunStep("givemoney")
        /\ C8_GiveMoneyRejectCase(db, reply'.user_id, reply'.amount, reply'.gamertag))
    => /\ reply'.outcome # "ok"
       /\ db' = db
       /\ disk' = disk

C8_RejectedSellAndGiftChangeNothing == [][C8_RejectedStep]_vars

\* A user who holds some of a stock asked to sell more of it than they hold.
C8_Witness ==
    /\ reply.command = "sell" /\ reply.outcome = "not enough shares"
    /\ Held(db, reply.user_id, upper(reply.stock_name)) > 0

-----------------------------------------------------------------------------
(* C9: a gift of N shares that succeeds takes exactly N from the sender's
   holding and adds exactly N to the recipient's (whose row exists
   afterwards), changes no other holding, no balance and no stock's
   available or price; when sender and recipient are the same user nothing
   changes at all. *)

C9_GiftStockStep ==
    (RunStep("givestocks") /\ reply'.outcome = "ok") =>
        LET giver_id == reply'.user_id
            N == reply'.quantity
            name == reply'.stock_name
            target_id == SetMin(UsersWithGamertag(db, reply'.gamertag))
        IN  /\ IF target_id = giver_id
               THEN db'.stock_holdings = db.stock_holdings
               ELSE /\ Held(db', giver_id, name) = Held(db, giver_id, name) - N
                    /\ Held(db', target_id, name) = Held(db, target_id, name) + N
                    /\ <<target_id, name>> \in DOMAIN db'.stock_holdings
                    /\ SameExcept(db'.stock_holdings, db.stock_holdings,
                                  {<<giver_id, name>>, <<target_id, name>>})
            /\ db'.users = db.users
            /\ db'.stocks = db.stocks
            /\ db'.update_time = db.update_time
            /\ disk' = db'

C9_GiftStockMovesShares == [][C9_GiftStockStep]_vars

\* Shares have been given to another user, who had none of the stock.
C9_Witness ==
    /\ reply.command = "givestocks" /\ reply.outcome = "ok"
    /\ \E target_id \in UsersWithGamertag(db, reply.gamertag) :
          /\ target_id # reply.user_id
          /\ Held(db, target_id, reply.stock_name) = reply.quantity

-----------------------------------------------------------------------------
(* C10: a gift of money that succeeds takes exactly the amount from the
   sender's balance and adds exactly the amount to the recipient's, so both
   are still numbers and their sum is what it was, and it changes no other
   balance, no holding and no stock. *)

C10_GiftCurrencyStep ==
    (RunStep("givemoney") /\ reply'.outcome = "ok") =>
        LET giver_id == reply'.user_id
            amount == reply'.amount
            target_id == SetMin(UsersWithGamertag(db, reply'.gamertag))
        IN  /\ IsNum(amount)
            /\ IsNum(db'.users[giver_id].balance)
            /\ IsNum(db'.users[target_id].balance)
            /\ IF target_id = giver_id
               THEN db'.users = db.users
               ELSE /\ db'.users[giver_id].balance =
                           Num(Val(db.users[giver_id].balance) - Val(amount))
                    /\ db'.users[target_id].balance =
                           Num(Val(db.users[target_id].balance) + Val(amount))
                    /\ SameExcept(db'.users, db.users, {giver_id, target_id})
            /\ db'.stock_holdings = db.stock_holdings
            /\ db'.stocks = db.stocks
            /\ disk' = db'

C10_GiftCurrencyMovesAmount == [][C10_GiftCurrencyStep]_vars

-----------------------------------------------------------------------------
(* C11: in every reachable state no two registered users have the same
   handle. *)

C11_HandlesUnique ==
    \A u1, u2 \in DOMAIN db.users :
        u1 # u2 => db.users[u1].gamertag # db.users[u2].gamertag

-----------------------------------------------------------------------------
(* C12: a register by a user who is registered already, or with a handle
   that is missing, has a character outside lowercase letters and digits, or
   is longer than 11 characters, fails and changes nothing; a register that
   succeeds adds exactly one user row, for the caller, with the handle given,
   a balance of exactly 100000.00 and no holdings, commits, and changes no
   other row. *)

RegisterStep == reply'.command = "register" /\ pc' = pc /\ steps' = steps

C12_RegisterStep ==
    RegisterStep =>
        LET u == reply'.user_id
            g == reply'.gamertag
        IN  /\ (\/ u \in DOMAIN db.users
                \/ g = <<>>
                \/ \E i \in 1 .. Len(g) : g[i] \notin LOWER_ALNUM
                \/ Len(g) > MAX_GAMERTAG_LEN)
               => (reply'.outcome # "ok" /\ db' = db /\ disk' = disk)
            /\ reply'.outcome = "ok"
               => /\ u \notin DOMAIN db.users
                  /\ DOMAIN db'.users = DOMAIN db.users \cup {u}
                  /\ db'.users[u] = [gamertag |-> g, balance |-> Num(100000 * Cents)]
                  /\ SameExcept(db'.users, db.users, {u})
                  /\ \A key \in DOMAIN db'.stock_holdings : key[1] # u
                  /\ db'.stock_holdings = db.stock_holdings
                  /\ db'.stocks = db.stocks
                  /\ disk' = db'

C12_RegisterEffect == [][C12_RegisterStep]_vars

\* A second user has registered.
C12_Witness ==
    /\ reply.command = "register" /\ reply.outcome = "ok"
    /\ DOMAIN db.users = UserIds
    /\ db.users[reply.user_id].balance = Num(INITIAL_BALANCE)

-----------------------------------------------------------------------------
(* C13: ticker allocation is deterministic.  Any two initializations that
   start from an empty registry over the same list of text channels and the
   same set of emojis end with the same name_to_ticker and the same
   ticker_to_name: the registry a restarted process rebuilds is the one it had
   before the restart when the guild has not changed. *)
C13_SameInputs(r1, r2) ==
    r1.text_channels = r2.text_channels /\ r1.emoji_set = r2.emoji_set

C13_AllocationDeterministic ==
    \A i, j \in DOMAIN seen.runs :
        C13_SameInputs(seen.runs[i], seen.runs[j]) =>
            /\ seen.runs[i].name_to_ticker = seen.runs[j].name_to_ticker
            /\ seen.runs[i].ticker_to_name = seen.runs[j].ticker_to_name

\* The process was restarted in a guild with two channels and two emojis that
\* did not change, and has rebuilt its registry.
C13_Witness ==
    /\ Len(seen.runs) = 2
    /\ C13_SameInputs(seen.runs[1], seen.runs[2])
    /\ Len(seen.runs[2].text_channels) = 2
    /\ Cardinality(seen.runs[2].emoji_set) = 2
    /\ bot.name_to_ticker = seen.runs[1].name_to_ticker
    /\ Cardinality(DOMAIN bot.ticker_to_name) = 4

-----------------------------------------------------------------------------
(* C14: tickers are unique.  In the registry no two distinct names have the
   same ticker, the name recorded for the ticker of a name is that name, and
   every allocation of an initialization added an entry of its own to
   ticker_to_name: none was written over by a later allocation. *)
C14_TickersUnique ==
    /\ \A n1, n2 \in DOMAIN bot.name_to_ticker :
           n1 # n2 => bot.name_to_ticker[n1] # bot.name_to_ticker[n2]
    /\ \A n \in DOMAIN bot.name_to_ticker :
           /\ bot.name_to_ticker[n] \in DOMAIN bot.ticker_to_name
           /\ bot.ticker_to_name[bot.name_to_ticker[n]] = n
    /\ \A i \in DOMAIN seen.runs :
           Cardinality(DOMAIN seen.runs[i].ticker_to_name)
               = Len(seen.runs[i].text_channels) + Cardinality(seen.runs[i].emoji_set)

\* Two channels whose names ask for the same letters, and two emojis of the
\* same name, have each got a ticker.
C14_Witness ==
    /\ general \in DOMAIN bot.name_to_ticker /\ gen_eral \in DOMAIN bot.name_to_ticker
    /\ bot.name_to_ticker[general] = "CGENER"
    /\ bot.name_to_ticker[gen_eral] = "CGENEA"
    /\ bot.name_to_ticker[EmojiStr(kekw_animated)] = "EKEKAA"

-----------------------------------------------------------------------------
(* C15: the availability step never decreases availability.  For every stock,
   the stock_avail that one availability step writes is at least the
   stock_avail it read. *)
C15_AvailStep ==
    reply'.command = "avail" =>
        \A t \in DOMAIN db.stocks :
            db'.stocks[t].stock_avail >= db.stocks[t].stock_avail

C15_AvailNeverDecreases == [][C15_AvailStep]_vars

-----------------------------------------------------------------------------
(* C16: the increase with n units of activity is n single steps in sequence,
   each adding the amount of the ladder for the price the step before it
   left: 1.00 below 100, 0.80 below 200, 0.50 below 300, 0.20 below 400, 0.10
   below 500, 0.05 from 500 on.  With n = 0 the price is unchanged, and a
   threshold crossed within the burst changes the amount for the units after
   it. *)
C16_Amount(p) ==
    CASE p < 100 * Cents -> 100
      [] p >= 100 * Cents /\ p < 200 * Cents -> 80
      [] p >= 200 * Cents /\ p < 300 * Cents -> 50
      [] p >= 300 * Cents /\ p < 400 * Cents -> 20
      [] p >= 400 * Cents /\ p < 500 * Cents -> 10
      [] p >= 500 * Cents -> 5

RECURSIVE C16_Sequential(_, _)
C16_Sequential(p, n) ==
    IF n = 0 THEN p ELSE C16_Sequential(p + C16_Amount(p), n - 1)

C16_IncreaseStep ==
    reply'.command = "increase" =>
        \A t \in DOMAIN db.stocks :
            /\ db'.stocks[t].stock_value
                   = C16_Sequential(db.stocks[t].stock_value, reply'.quantity)
            /\ reply'.quantity = 0 => db'.stocks[t].stock_value = db.stocks[t].stock_value

C16_IncreaseIsSequential == [][C16_IncreaseStep]_vars

\* One burst of 3 units took a price from 99.90 over the threshold of 100:
\* 1.00, then 0.80 twice.
C16_Witness ==
    /\ reply.command = "increase" /\ reply.quantity = 3 /\ steps = 1
    /\ db.stocks["CGENER"].stock_value = 9990 + 100 + 80 + 80

-----------------------------------------------------------------------------
(* C17: no valuation cycle begins before the startup initialization has
   completed.  When update_stocks_task starts a cycle, initialize_stocks is
   not under way, the registry holds every channel and every emoji the guild
   had when on_ready ran, and every stock row the connection sees, the rows
   of all registered tickers among them, has been committed. *)
C17_CycleBegins == ~job.cycle.active /\ job'.cycle.active

C17_CycleStep ==
    C17_CycleBegins =>
        /\ ~job.init.active
        /\ seen.ready # <<>>
        /\ \A name \in Range(seen.ready[1].text_channels) \cup get_emoji_set(seen.ready[1]) :
               /\ name \in DOMAIN bot.name_to_ticker
               /\ bot.name_to_ticker[name] \in DOMAIN disk.stocks
        /\ \A t \in DOMAIN db.stocks :
               t \in DOMAIN disk.stocks /\ disk.stocks[t] = db.stocks[t]

C17_InitializedBeforeFirstCycle == [][C17_CycleStep]_vars

\* The first cycle of a process is counting, in the guild of two channels and
\* two emojis, all four seeded by the initialization before it.
C17_Witness ==
    /\ job.cycle.active /\ db.update_time = 0
    /\ Len(seen.runs) = 1
    /\ Cardinality(DOMAIN bot.name_to_ticker) = 4
    /\ Cardinality(DOMAIN disk.stocks) = 4

-----------------------------------------------------------------------------
(* C18: a channel whose history cannot be read contributes nothing.  While
   the activity is counted, the channel counts and the emoji counts are those
   of the histories that were read to their end, as if the channels whose
   retrieval raised were not there: such a channel adds no count, not even of
   the messages read before the exception, and the count goes on with the
   channels after it. *)
C18_Uses(ch, word) ==
    Cardinality({ij \in (DOMAIN ch.messages) \X (1 .. Len(Message)) :
                    /\ ij[2] \in DOMAIN ch.messages[ij[1]]
                    /\ ch.messages[ij[1]][ij[2]] = word})

RECURSIVE C18_Messages(_, _)
C18_Messages(log, name) ==
    IF log = <<>> THEN 0
    ELSE (IF Head(log).name = name THEN Len(Head(log).ch.messages) ELSE 0)
             + C18_Messages(Tail(log), name)

RECURSIVE C18_Emojis(_, _)
C18_Emojis(log, word) ==
    IF log = <<>> THEN 0
    ELSE C18_Uses(Head(log).ch, word) + C18_Emojis(Tail(log), word)

C18_CountsOf(who) ==
    LET read == SelectSeq(seen.log[who], LAMBDA entry : ~entry.ch.raises)
        r == job[who].result
    IN  /\ DOMAIN r.channel_counts.n = {read[i].name : i \in DOMAIN read}
        /\ \A name \in DOMAIN r.channel_counts.n :
               r.channel_counts.n[name] = C18_Messages(read, name)
        /\ DOMAIN r.emoji_counts.n = {e \in bot.emoji_set : C18_Emojis(read, e) > 0}
        /\ \A e \in DOMAIN r.emoji_counts.n :
               r.emoji_counts.n[e] = C18_Emojis(read, e)

C18_FailingChannelSkipped == C18_CountsOf("init") /\ C18_CountsOf("cycle")

\* The hour has been counted: the retrieval of the first channel raised after
\* one message, the second channel was read to its end.
C18_Witness ==
    /\ job.cycle.active /\ job.cycle.todo = <<>>
    /\ Len(seen.log.cycle) = 2
    /\ seen.log.cycle[1].ch.raises /\ seen.log.cycle[1].ch.messages # <<>>
    /\ ~seen.log.cycle[2].ch.raises /\ seen.log.cycle[2].ch.messages # <<>>
    /\ job.cycle.result.channel_counts.keys = <<gen_eral>>
    /\ job.cycle.result.emoji_counts.n[EmojiStr(kekw)] = 2 * MIN_ACTIVITY

-----------------------------------------------------------------------------
(* C19: a valuation cycle runs its steps in one order.  Every stock's price
   after the cycle is the decay of the price increased by the hour's activity
   (the decay is applied to the increased price, not the other way round),
   its availability is the adjusted one, and the completion time is recorded
   with them: the cycle that has recorded its time has applied all three
   steps. *)
C19_UpdateStep ==
    RunStep("update") =>
        /\ \A t \in DOMAIN db.stocks :
               \E draw \in CycleDraws :
                   /\ db'.stocks[t].stock_value
                          = get_stock_decay_value(
                                get_increase_stock_value(db.stocks[t].stock_value, draw.count),
                                draw.decay)
                   /\ db'.stocks[t].stock_avail
                          = new_avail_value(db.stocks[t].stock_avail, draw.r, draw.jitter)
        /\ DOMAIN db'.stocks = DOMAIN db.stocks
        /\ db'.update_time = db.update_time + 1
        /\ db'.users = db.users /\ db'.stock_holdings = db.stock_holdings
        /\ disk' = db'

-----------------------------------------------------------------------------
(* C20: the three price steps of a cycle are committed together.  Whenever
   the committed row of a stock changes, the committed tables go from before
   a cycle to after it: the completion time advances by one, and every stock
   has had its price increased and decayed and its availability adjusted.  No
   committed state holds the writes of only some of the steps, also when the
   cycle fails part-way. *)
C20_MaxActivity == 3 * 2 * MIN_ACTIVITY

C20_DurableStep ==
    (\E t \in DOMAIN disk.stocks : disk'.stocks[t] # disk.stocks[t]) =>
        /\ disk'.update_time = disk.update_time + 1
        /\ \A t \in DOMAIN disk.stocks :
               \E draw \in CycleDraws, total_messages \in 0 .. C20_MaxActivity :
                   /\ disk'.stocks[t].stock_value
                          = get_stock_decay_value(
                                get_increase_stock_value(disk.stocks[t].stock_value,
                                                         total_messages),
                                draw.decay)
                   /\ disk'.stocks[t].stock_avail
                          = new_avail_value(disk.stocks[t].stock_avail, draw.r, draw.jitter)

-----------------------------------------------------------------------------
(* C21: a valuation cycle does not interleave with trading.  The step in
   which a buy, a sell or a gift of stocks reads and writes the ledger is no
   step of the cycle: it changes no price and no completion time and leaves
   the count where it is.  The step in which the cycle writes runs from its
   first write to its last commit without a step of a command: it leaves the
   users, the holdings and the buy lock alone, and it computes every stock's
   new price and availability from the row as the trades before it left it,
   so that a trade made while the hour was being counted is entirely before
   the cycle's updates. *)
C21_TradeStep == BuySectionStep \/ RunStep("sell") \/ RunStep("givestocks")

C21_CycleWrites == job.cycle.active /\ ~job'.cycle.active

C21_Step ==
    /\ C21_TradeStep =>
           /\ job' = job /\ bot' = bot
           /\ db'.update_time = db.update_time
           /\ \A t \in DOMAIN db.stocks :
                  db'.stocks[t].stock_value = db.stocks[t].stock_value
    /\ C21_CycleWrites =>
           /\ UNCHANGED <<pc, args, locked, waiters, steps>>
           /\ db'.users = db.users /\ db'.stock_holdings = db.stock_holdings
           /\ reply'.command = "update" /\ reply'.outcome = "ok"
           /\ disk' = db'
           /\ \A t \in DOMAIN db.stocks :
                  \E draw \in CycleDraws :
                      LET name == bot.ticker_to_name[t]
                          counter == IF name \in bot.emoji_set
                                     THEN job.cycle.result.emoji_counts
                                     ELSE job.cycle.result.channel_counts
                      IN  /\ db'.stocks[t].stock_avail
                                 = new_avail_value(db.stocks[t].stock_avail, draw.r, draw.jitter)
                          /\ db'.stocks[t].stock_value
                                 = get_stock_decay_value(
                                       get_increase_stock_value(db.stocks[t].stock_value,
                                                                CounterGet(counter, name)),
                                       draw.decay)

-----------------------------------------------------------------------------
(* C22: an allocation returns the first candidate, in the search order, that
   is not allocated.  The name is stripped to its letters and digits and
   upper-cased.  With 5 characters or more the candidates are the prefix
   followed by the characters at i < j < k < l < m, in the lexicographic
   order of the index tuples.  When that gives nothing (fewer than 5
   characters, or every candidate taken) the same search runs on the stripped
   name followed by the suffix AAAAA, then AAAAB, and so on.  No ticker is
   returned only when every candidate of every suffix is taken. *)
C22_Stripped(name) ==
    LET kept == SelectSeq(name, LAMBDA c : \E i \in 1 .. 26 :
                              c = ASCII_LOWERCASE[i] \/ c = ASCII_UPPERCASE[i]
                              \/ (i <= 10 /\ c = DIGITS[i]))
    IN  [p \in DOMAIN kept |->
            IF \E i \in 1 .. 26 : kept[p] = ASCII_LOWERCASE[i]
            THEN ASCII_UPPERCASE[CHOOSE i \in 1 .. 26 : kept[p] = ASCII_LOWERCASE[i]]
            ELSE kept[p]]

\* The index tuples i < j < k < l < m of a string of n characters.
C22_Tuples(n) ==
    UNION {UNION {UNION {UNION {{<<i, j, k, l, m>> : m \in l + 1 .. n}
                                : l \in k + 1 .. n}
                         : k \in j + 1 .. n}
                  : j \in i + 1 .. n}
           : i \in 1 .. n}

C22_Before(t, u) ==
    \E p \in 1 .. 5 : t[p] < u[p] /\ \A q \in 1 .. p - 1 : t[q] = u[q]

C22_Candidate(prefix, str, t) ==
    Join(<<prefix, str[t[1]], str[t[2]], str[t[3]], str[t[4]], str[t[5]]>>)

\* The first candidate of str that is not allocated; "" when all are.
C22_First(prefix, str, allocated) ==
    LET free == {t \in C22_Tuples(Len(str)) : C22_Candidate(prefix, str, t) \notin allocated} IN
    IF free = {} THEN ""
    ELSE C22_Candidate(prefix, str, CHOOSE t \in free : \A u \in free \ {t} : C22_Before(t, u))

\* The k-th suffix (from 0) in the order AAAAA, AAAAB, ..., for k < 26.
C22_Suffix(k) == <<"A", "A", "A", "A", ASCII_UPPERCASE[k + 1]>>

C22_Allocate(prefix, name, allocated) ==
    LET str == C22_Stripped(name)
        found == {k \in 0 .. NumSuffixes - 1 :
                      C22_First(prefix, str \o C22_Suffix(k), allocated) # ""}
    IN  IF Len(str) >= 5 /\ C22_First(prefix, str, allocated) # ""
        THEN C22_First(prefix, str, allocated)
        ELSE IF found = {} THEN ""
        ELSE C22_First(prefix, str \o C22_Suffix(SetMin(found)), allocated)

C22_AllocateStep ==
    reply'.command = "allocate" =>
        /\ reply'.stock_name
               = C22_Allocate(reply'.prefix, reply'.gamertag, DOMAIN bot.ticker_to_name)
        /\ reply'.stock_name # "" => reply'.stock_name \notin DOMAIN bot.ticker_to_name

C22_FirstFreeCandidate == [][C22_AllocateStep]_vars

\* A name with nothing left once cleaned was allocated twice: the second
\* allocation went on to the suffix AAAAB.
C22_Witness ==
    /\ reply.command = "allocate" /\ reply.gamertag = <<"-">>
    /\ reply.stock_name = "CAAAAB"
    /\ "CAAAAA" \in DOMAIN bot.ticker_to_name

-----------------------------------------------------------------------------
(* C23: the seed price.  For an activity count n it is 0 when n < 5, exactly
   4.20 when 5 <= n <= 120, and for n > 120 what 120 rounds of one decay step
   followed by round(n / 120) increase steps make of 4.20.  A newly seeded
   stock has a price above 0 if and only if n >= 5. *)
C23_Average(n) ==
    CHOOSE k \in 0 .. n :
        /\ 2 * k * 120 - 120 <= 2 * n /\ 2 * n <= 2 * k * 120 + 120
        /\ (2 * n = 2 * k * 120 - 120 \/ 2 * n = 2 * k * 120 + 120) => k % 2 = 0

\* `rounds` rounds in sequence (the first half of them, then the others).
RECURSIVE C23_Rounds(_, _, _, _)
C23_Rounds(p, rounds, average, d) ==
    IF rounds = 0 THEN p
    ELSE IF rounds = 1 THEN C16_Sequential((p * (1000 - d)) \div 1000, average)
    ELSE LET half == C23_Rounds(p, rounds \div 2, average, d)
         IN  CASE half \in Int -> C23_Rounds(half, rounds - rounds \div 2, average, d)

C23_Seed(n, d) ==
    IF n < 5 THEN 0
    ELSE IF n <= 120 THEN 420
    ELSE C23_Rounds(420, 120, C23_Average(n), d)

C23_SeedStep ==
    reply'.command = "seed" =>
        LET n == reply'.quantity
            row == db'.stocks["CGENER"]
        IN  /\ row.stock_value = C23_Seed(n, Val(reply'.amount))
            /\ row.stock_value > 0 <=> n >= 5
            /\ row.stock_avail = 10000

C23_SeedPrice == [][C23_SeedStep]_vars

\* A stock was seeded from 180 messages, 1.5 an hour: 120 rounds of decay and
\* 2 increase steps.
C23_Witness ==
    /\ reply.command = "seed" /\ reply.quantity = 180
    /\ db.stocks["CGENER"].stock_value = C23_Rounds(420, 120, 2, Val(reply.amount))
    /\ db.stocks["CGENER"].stock_value > 420

-----------------------------------------------------------------------------
(* C24: prices are never negative, and only the valuation cycle changes
   them.  In every state every stock's price is at least 0, and a step that
   is not a cycle (a buy, a sell, a gift, a registration, a rename) leaves
   the price of every stock as it was. *)
C24_PricesNonNegative ==
    \A t \in DOMAIN db.stocks : db.stocks[t].stock_value >= 0

C24_CommandStep ==
    db'.update_time = db.update_time =>
        /\ DOMAIN db'.stocks = DOMAIN db.stocks
        /\ \A t \in DOMAIN db.stocks :
               db'.stocks[t].stock_value = db.stocks[t].stock_value

-----------------------------------------------------------------------------
(* C25: shares are conserved.  For every stock, the quantity available plus
   the quantities all users hold of it is the same after every buy, sell and
   gift of stocks as before it, whether the command went through or was
   refused and whatever quantity it was given; only the availability step of
   a cycle changes the sum. *)
RECURSIVE C25_HeldBy(_, _, _)
C25_HeldBy(L, users, stock_name) ==
    IF users = {} THEN 0
    ELSE LET u == CHOOSE x \in users : TRUE
         IN  Held(L, u, stock_name) + C25_HeldBy(L, users \ {u}, stock_name)

C25_Shares(L, stock_name) ==
    L.stocks[stock_name].stock_avail + C25_HeldBy(L, UserIds, stock_name)

C25_CommandStep ==
    db'.update_time = db.update_time =>
        \A t \in DOMAIN db.stocks :
            /\ C25_Shares(db', t) = C25_Shares(db, t)
            /\ C25_Shares(disk', t) = C25_Shares(disk, t)

C25_SharesConserved == [][C25_CommandStep]_vars

\* User 1 bought 2 shares and gave 1 of them to user 2: 9998 are available
\* and 2 are held.
C25_Witness ==
    /\ reply.command = "givestocks" /\ reply.outcome = "ok"
    /\ Held(db, 1, "CGENER") = 1 /\ Held(db, 2, "CGENER") = 1
    /\ db.stocks["CGENER"].stock_avail = INITIAL_AVAIL - 2

-----------------------------------------------------------------------------
(* C26: every cycle completes.  A cycle that has started runs all of its
   steps and records its timestamp, and the loop is still running afterwards,
   whatever channels and emojis the guild has while the cycle runs, a channel
   created after the startup included: every name the count of a cycle
   returns has a ticker in the registry. *)
C26_CountedKeysHaveTickers ==
    job.cycle.active =>
        /\ \A name \in Range(job.cycle.result.channel_counts.keys) :
               name \in DOMAIN bot.name_to_ticker
        /\ \A name \in Range(job.cycle.result.emoji_counts.keys) :
               name \in DOMAIN bot.name_to_ticker

C26_CycleCompletes ==
    /\ [](C26_CountedKeysHaveTickers)
    /\ job.cycle.active ~> (~job.cycle.active /\ db.update_time > 0 /\ bot.loop = "running")

-----------------------------------------------------------------------------
(* C27: a persisted ticker keeps its source.  A ticker that a startup has
   assigned to a channel or emoji (and whose stock row is in the table since)
   is never assigned to a different channel or emoji by a later startup, also
   when channels or emojis were added or removed in between. *)
C27_TickersKeepTheirSource ==
    \A i, j \in 1 .. Len(seen.runs) :
        i < j =>
            \A t \in DOMAIN seen.runs[i].ticker_to_name \cap DOMAIN db.stocks :
                t \in DOMAIN seen.runs[j].ticker_to_name =>
                    seen.runs[j].ticker_to_name[t] = seen.runs[i].ticker_to_name[t]

-----------------------------------------------------------------------------
(* C28: startup initialization only adds stock rows.  When initialize_stocks
   has run, every stock row that was in the table before it is still there
   with the price and the available quantity it had (also a row that a trade
   changed while the histories were read), and every row it added has 10000
   available and the seed price of the activity counted for its source. *)
C28_Seeded(row, name) ==
    LET counts == job.init.result
        n == IF name \in bot'.emoji_set THEN CounterGet(counts.emoji_counts, name)
             ELSE CounterGet(counts.channel_counts, name)
    IN  /\ row.stock_avail = INITIAL_AVAIL
        /\ \E d \in SeedDraws : row.stock_value = get_initial_stock_value(n, d)

C28_InitializeStep ==
    (job.init.active /\ ~job'.init.active) =>
        /\ \A t \in DOMAIN db.stocks :
               t \in DOMAIN db'.stocks /\ db'.stocks[t] = db.stocks[t]
        /\ \A t \in DOMAIN db'.stocks \ DOMAIN db.stocks :
               /\ t \in DOMAIN bot'.ticker_to_name
               /\ C28_Seeded(db'.stocks[t], bot'.ticker_to_name[t])
        /\ disk' = db'

====
